---- MODULE Spec2Model ----
(***************************************************************************)
(* Swedish SSN validator and masker (fossbarrow/global-ssn-validator).     *)
(*                                                                         *)
(* The repository holds several variants of the same two operations:       *)
(*   - the regex-based validator and its masker (src/src/index.ts 23-184,  *)
(*     and the class swedishSSN of src/unnamed/part_000);                  *)
(*   - the three-phase validator (format, date, checksum) and its masker   *)
(*     (src/src/index.ts 212-408).                                         *)
(*                                                                         *)
(* A JavaScript string is a sequence of one-character strings.  A value    *)
(* handed to an operation is a record [type, str]: its runtime type and    *)
(* the result of ToString on it.  Dates are those of Node (V8), the engine *)
(* package.json names.  The date-only ssnIsValid of src/unnamed/part_001   *)
(* (lines 24-59), which throws on a malformed value, is not among the      *)
(* operations modelled.                                                    *)
(***************************************************************************)
EXTENDS Integers, Sequences, FiniteSets, TLC

VARIABLES input, today, op, outcome, executed

vars == <<input, today, op, outcome, executed>>

-----------------------------------------------------------------------------
(* Characters and strings *)

Digits == {"0", "1", "2", "3", "4", "5", "6", "7", "8", "9"}

DigitChars == <<"0", "1", "2", "3", "4", "5", "6", "7", "8", "9">>

\* The character of a decimal digit 0..9.
Dg(n) == DigitChars[n + 1]

\* parseInt of a one-digit string.
DigitVal(c) == CHOOSE n \in 0..9 : DigitChars[n + 1] = c

\* \d of a regular expression.
IsDigit(c) == c \in Digits

\* \w of a regular expression, on the alphabet of the model.
IsWordChar(c) == c \in Digits \cup {"X", "a", "_"}

\* A tuple of digits as a string.
Str(ds) == [i \in 1..Len(ds) |-> Dg(ds[i])]

AllDigits(s) == \A i \in 1..Len(s) : IsDigit(s[i])

RECURSIVE NumToStr(_)
\* Number.prototype.toString of a non-negative integer.
NumToStr(n) == IF n < 10 THEN <<Dg(n)>> ELSE NumToStr(n \div 10) \o <<Dg(n % 10)>>

RECURSIVE StrToNum(_)
\* The value of a string of digits (the empty string is 0).
StrToNum(s) ==
    IF s = <<>> THEN 0
    ELSE 10 * StrToNum(SubSeq(s, 1, Len(s) - 1)) + DigitVal(s[Len(s)])

Min(a, b) == IF a < b THEN a ELSE b
Max(a, b) == IF a > b THEN a ELSE b

\* String.prototype.slice(a, b): negative indices count from the end.
Slice(s, a, b) ==
    LET n    == Len(s)
        from == IF a < 0 THEN Max(n + a, 0) ELSE Min(a, n)
        to   == IF b < 0 THEN Max(n + b, 0) ELSE Min(b, n)
    IN  IF from >= to THEN <<>> ELSE SubSeq(s, from + 1, to)

\* String.prototype.substring(a, b): negative indices are 0, and the two are swapped
\* when a > b.
Substring(s, a, b) ==
    LET n  == Len(s)
        a1 == Min(Max(a, 0), n)
        b1 == Min(Max(b, 0), n)
    IN  SubSeq(s, Min(a1, b1) + 1, Max(a1, b1))

\* String.prototype.substr(start, length).
Substr(s, start, length) ==
    LET n    == Len(s)
        from == IF start < 0 THEN Max(n + start, 0) ELSE Min(start, n)
        to   == Min(from + Max(length, 0), n)
    IN  SubSeq(s, from + 1, to)

\* s.includes(c) for a one-character c.
Includes(s, c) == \E i \in 1..Len(s) : s[i] = c

\* s.replace(c, ""): the first occurrence of the character c is removed.
RemoveFirst(s, c) ==
    IF Includes(s, c)
    THEN LET i == CHOOSE k \in 1..Len(s) : s[k] = c /\ \A j \in 1..(k - 1) : s[j] # c
         IN  SubSeq(s, 1, i - 1) \o SubSeq(s, i + 1, Len(s))
    ELSE s

\* A replacement that leaves the digits in place.
KeepDigits(s) == s

\* s.replace(/\d/g, "X").
MaskDigits(s) == [i \in 1..Len(s) |-> IF IsDigit(s[i]) THEN "X" ELSE s[i]]

\* s.replace(/[\w]/g, "X").
MaskWordChars(s) == [i \in 1..Len(s) |-> IF IsWordChar(s[i]) THEN "X" ELSE s[i]]

\* s.replace(/\W/g, "").
removeNonWordCharacters(s) == SelectSeq(s, IsWordChar)

\* s.replace(/\W/g, "-").
DashNonWordCharacters(s) == [i \in 1..Len(s) |-> IF IsWordChar(s[i]) THEN s[i] ELSE "-"]

RECURSIVE Join(_, _)
\* Array.prototype.join of an array of strings.
Join(parts, sep) ==
    IF parts = <<>> THEN <<>>
    ELSE IF Len(parts) = 1 THEN parts[1]
    ELSE parts[1] \o sep \o Join(Tail(parts), sep)

RECURSIVE Split(_, _)
\* String.prototype.split on a one-character separator.
Split(s, c) ==
    IF ~Includes(s, c) THEN <<s>>
    ELSE LET i == CHOOSE k \in 1..Len(s) : s[k] = c /\ \A j \in 1..(k - 1) : s[j] # c
         IN  <<SubSeq(s, 1, i - 1)>> \o Split(SubSeq(s, i + 1, Len(s)), c)

-----------------------------------------------------------------------------
(* Results of a call *)

NoOutcome  == [kind |-> "none",  b |-> FALSE, s |-> <<>>]
Throws     == [kind |-> "throw", b |-> FALSE, s |-> <<>>]
RetBool(b) == [kind |-> "bool",  b |-> b,     s |-> <<>>]
RetStr(s)  == [kind |-> "str",   b |-> FALSE, s |-> s]

-----------------------------------------------------------------------------
(* Dates: new Date(string) and Date.parse(string) of Node (V8).            *)
(* A date is [nan, day]: day counts the days of the proleptic Gregorian    *)
(* calendar, so that getTime() orders as day does.                         *)

NaNDate == [nan |-> TRUE, day |-> 0]

IsLeap(y) == (y % 4 = 0 /\ y % 100 # 0) \/ y % 400 = 0

DaysInMonth(y, m) ==
    IF m = 2 THEN (IF IsLeap(y) THEN 29 ELSE 28)
    ELSE IF m \in {4, 6, 9, 11} THEN 30 ELSE 31

DaysBeforeYear(y) == 365 * y + ((y - 1) \div 4) - ((y - 1) \div 100) + ((y - 1) \div 400)

RECURSIVE DaysBeforeMonth(_, _)
DaysBeforeMonth(y, m) == IF m <= 1 THEN 0 ELSE DaysBeforeMonth(y, m - 1) + DaysInMonth(y, m - 1)

\* MakeDay(year, month, date): a date past the end of its month runs into the next.
DayNumber(y, m, d) == DaysBeforeYear(y) + DaysBeforeMonth(y, m) + d - 1

IsMonth(x) == x >= 1 /\ x <= 12
IsDay(x) == x >= 1 /\ x <= 31

\* The years a time value can hold (TimeClip).
YearInRange(y) == y > -271821 /\ y < 275760

SignToken == [num |-> FALSE, val |-> 0, len |-> 1]

\* The length of the longest prefix of digits of s.
DigitPrefixLen(s) ==
    IF \A i \in 1..Len(s) : IsDigit(s[i]) THEN Len(s)
    ELSE (CHOOSE k \in 1..Len(s) : ~IsDigit(s[k]) /\ \A j \in 1..(k - 1) : IsDigit(s[j])) - 1

RECURSIVE Tokenize(_)
\* The date parser's tokens of a string of digits and '-': numbers, with their
\* lengths, and signs.
Tokenize(s) ==
    IF s = <<>> THEN <<>>
    ELSE IF IsDigit(s[1])
         THEN LET k == DigitPrefixLen(s)
              IN  <<[num |-> TRUE, val |-> StrToNum(SubSeq(s, 1, k)), len |-> k]>>
                      \o Tokenize(SubSeq(s, k + 1, Len(s)))
         ELSE <<SignToken>> \o Tokenize(Tail(s))

IsFixedNumber(toks, n) == toks # <<>> /\ toks[1].num /\ toks[1].len = n

SkipDash(toks) == IF toks # <<>> /\ ~toks[1].num THEN Tail(toks) ELSE toks

RECURSIVE LegacyParse(_, _, _)
\* The legacy parser's loop: a number is one more component of the day and the '-'
\* after it is skipped; any other sign after a number is an error; a fourth
\* number is an error.
LegacyParse(toks, comps, hasReadNumber) ==
    IF toks = <<>> THEN [ok |-> TRUE, comps |-> comps, iso |-> FALSE]
    ELSE IF toks[1].num
         THEN IF Len(comps) = 3 THEN [ok |-> FALSE, comps |-> comps, iso |-> FALSE]
              ELSE LegacyParse(SkipDash(Tail(toks)), Append(comps, toks[1].val), TRUE)
         ELSE IF hasReadNumber THEN [ok |-> FALSE, comps |-> comps, iso |-> FALSE]
              ELSE LegacyParse(Tail(toks), comps, hasReadNumber)

\* The ES5 parser after the year: -MM, -DD, the end of the input; what it cannot
\* read goes to the legacy parser with the components read so far.
ParseES5AfterYear(comps, rest) ==
    IF rest = <<>> THEN [ok |-> TRUE, comps |-> comps, iso |-> TRUE]
    ELSE IF rest[1].num THEN LegacyParse(rest, comps, TRUE)
    ELSE LET r1 == Tail(rest)
         IN  IF ~(IsFixedNumber(r1, 2) /\ IsMonth(r1[1].val))
             THEN LegacyParse(r1, comps, TRUE)
             ELSE LET c2 == Append(comps, r1[1].val)
                      r2 == Tail(r1)
                  IN  IF r2 = <<>> THEN [ok |-> TRUE, comps |-> c2, iso |-> TRUE]
                      ELSE LET r3 == Tail(r2)
                           IN  IF ~(IsFixedNumber(r3, 2) /\ IsDay(r3[1].val))
                               THEN LegacyParse(r3, c2, TRUE)
                               ELSE IF Tail(r3) = <<>>
                                    THEN [ok |-> TRUE, comps |-> Append(c2, r3[1].val), iso |-> TRUE]
                                    ELSE LegacyParse(Tail(r3), Append(c2, r3[1].val), TRUE)

\* The ES5 parser: a year of four digits, or a sign and a year of six digits.
ParseES5(toks) ==
    IF toks = <<>> THEN [ok |-> TRUE, comps |-> <<>>, iso |-> FALSE]
    ELSE IF ~toks[1].num
         THEN IF IsFixedNumber(Tail(toks), 6)
              THEN IF toks[2].val = 0
                   THEN LegacyParse(Tail(Tail(toks)), <<>>, FALSE)
                   ELSE ParseES5AfterYear(<<0 - toks[2].val>>, Tail(Tail(toks)))
              ELSE LegacyParse(toks, <<>>, FALSE)
         ELSE IF toks[1].len = 4
              THEN ParseES5AfterYear(<<toks[1].val>>, Tail(toks))
              ELSE LegacyParse(toks, <<>>, FALSE)

\* DayComposer::Write: missing components are 1; the components are year, month,
\* day in an ISO date or when the first is no day of a month, and month, day, year
\* otherwise; a year 0..49 of a legacy date is 2000.., a year 50..99 is 1950...
ComposeDay(p) ==
    IF ~p.ok \/ Len(p.comps) < 1 THEN NaNDate
    ELSE LET c    == [i \in 1..3 |-> IF i <= Len(p.comps) THEN p.comps[i] ELSE 1]
             ymd  == p.iso \/ ~IsDay(c[1])
             y0   == IF ymd THEN c[1] ELSE c[3]
             m    == IF ymd THEN c[2] ELSE c[1]
             d    == IF ymd THEN c[3] ELSE c[2]
             y    == IF p.iso THEN y0
                     ELSE IF y0 >= 0 /\ y0 <= 49 THEN y0 + 2000
                     ELSE IF y0 >= 50 /\ y0 <= 99 THEN y0 + 1900
                     ELSE y0
         IN  IF IsMonth(m) /\ IsDay(d) /\ YearInRange(y)
             THEN [nan |-> FALSE, day |-> DayNumber(y, m, d)]
             ELSE NaNDate

\* Date.parse of a string of digits and '-' (the strings the validators build).
DateParse(s) == ComposeDay(ParseES5(Tokenize(s)))

\* new Date().getTime(): the current instant, as the day (in UTC) it lies in.  A
\* date-only ISO string is midnight UTC of its day, so the instant is before the
\* date exactly when its UTC day is.
Now == DayNumber(today[1], today[2], today[3])

\* new Date().getFullYear().
CurrentYear == today[1]

-----------------------------------------------------------------------------
(* The regex-based validator and its maskers                               *)
(* (ssnIsValid, ssnMask, sanitize, divideByIndex; class swedishSSN).       *)

\* The regular expression without its county group: (\d{6}|\d{8})(-|\+)\d{4}.
GeneralRegexAnyCounty(s) ==
    /\ Len(s) \in {11, 13}
    /\ \A i \in 1..Len(s) : IF i = Len(s) - 4 THEN s[i] \in {"-", "+"} ELSE IsDigit(s[i])

\* /^(\d{6}|\d{8})(-|\+)(0[1-9]|1\d|2[0-1])\d{2}$/.test(s)
GeneralRegexTest(s) ==
    /\ Len(s) \in {11, 13}
    /\ LET n == Len(s) - 5
       IN  /\ \A i \in 1..n : IsDigit(s[i])
           /\ s[n + 1] \in {"-", "+"}
           /\ \/ s[n + 2] = "0" /\ s[n + 3] \in Digits \ {"0"}
              \/ s[n + 2] = "1" /\ IsDigit(s[n + 3])
              \/ s[n + 2] = "2" /\ s[n + 3] \in {"0", "1"}
           /\ IsDigit(s[n + 4])
           /\ IsDigit(s[n + 5])

\* A sanitize whose age_threshold is 100 whatever the separator.
AgeThresholdHundred(s) == 100

\* age_threshold: 125, or 100 when the string holds a dash.
AgeThreshold(s) == IF Includes(s, "-") THEN 100 ELSE 125

\* sanitize: the first '-' and the first '+' are removed and a string of 10
\* characters gets the first two characters of (current year - age_threshold).
sanitize(s) ==
    LET bare == RemoveFirst(RemoveFirst(s, "-"), "+")
    IN  IF Len(bare) = 10
        THEN Slice(NumToStr(CurrentYear - AgeThreshold(s)), 0, 2) \o bare
        ELSE bare

RECURSIVE Chunks(_, _)
\* The slices of s between consecutive indices.
Chunks(s, indices) ==
    IF Len(indices) < 2 THEN <<>>
    ELSE <<Slice(s, indices[1], indices[2])>> \o Chunks(s, Tail(indices))

\* divideByIndex(string, debug, ...index)
divideByIndex(s, index) == Chunks(s, <<0>> \o index \o <<Len(s)>>)

\* The digits of a product summed: (n).toString().split("").map(Number).reduce(+).
DigitSum(n) == IF n < 10 THEN n ELSE (n \div 10) + (n % 10)

RECURSIVE ControlFromSwapped(_, _)
\* ControlFrom with the weights swapped: the digit at an odd index counts twice.
ControlFromSwapped(s, index) ==
    IF s = <<>> THEN 0
    ELSE DigitSum(DigitVal(s[1]) * (IF index % 2 = 1 THEN 2 ELSE 1))
             + ControlFromSwapped(Tail(s), index + 1)

RECURSIVE ControlFrom(_, _)
\* The accumulator of the forEach over the registry without its first two
\* characters: the digit at an even index counts twice.
ControlFrom(s, index) ==
    IF s = <<>> THEN 0
    ELSE DigitSum(DigitVal(s[1]) * (IF index % 2 = 1 THEN 1 ELSE 2))
             + ControlFrom(Tail(s), index + 1)

Control(registry) == ControlFrom(Slice(registry, 2, Len(registry)), 0)

\* ChecksumMatches with the check digit read and never compared.
ChecksumTrusted(control, checksum) == checksum \in 0..9

\* 10 - (control % 10) == checksum
ChecksumMatches(control, checksum) == 10 - (control % 10) = checksum

\* The date of the registry: new Date("YYYY-MM-DD").
RegistryDate(registry) == DateParse(Join(divideByIndex(Slice(registry, 0, 8), <<4, 6>>), <<"-">>))

\* DateRejected without the comparison with the current time.
DateRejectedNaNOnly(date) == date.nan

\* isNaN(date.getTime()) || new Date().getTime() < date.getTime()
DateRejected(date) == date.nan \/ Now < date.day

\* ssnIsValid of the regex variant, swedishSSN.validate: the outcome of a call on a
\* value v.  The regular expression tests ToString(v); a value that passes it and
\* is no string has no replace method, and sanitize throws a TypeError.
validate(v) ==
    IF ~GeneralRegexTest(v.str) THEN RetBool(FALSE)
    ELSE IF v.type # "string" THEN Throws
    ELSE LET ssn      == sanitize(v.str)
             parts    == divideByIndex(ssn, <<Len(ssn) - 1>>)
             registry == parts[1]
             checksum == DigitVal(parts[2][1])
         IN  IF DateRejected(RegistryDate(registry)) THEN RetBool(FALSE)
             ELSE RetBool(ChecksumMatches(Control(registry), checksum))

\* MaskFragments with the gender index one too far: length - 1.
MaskFragmentsGenderLast(s) ==
    LET date_index   == Len(s) - 7
        gender_index == Len(s) - 1
        fragments    == divideByIndex(s, <<date_index, date_index + 2, gender_index, gender_index + 1>>)
    IN  Join(<<MaskDigits(fragments[1]), fragments[2], MaskDigits(fragments[3]),
               fragments[4], MaskDigits(fragments[5])>>, <<>>)

\* The fragments of the masker, the first, third and fifth with X for each digit.
MaskFragments(s) ==
    LET date_index   == Len(s) - 7
        gender_index == Len(s) - 2
        fragments    == divideByIndex(s, <<date_index, date_index + 2, gender_index, gender_index + 1>>)
    IN  Join(<<MaskDigits(fragments[1]), fragments[2], MaskDigits(fragments[3]),
               fragments[4], MaskDigits(fragments[5])>>, <<>>)

\* ssnMask of the regex variant: false for a value that is not valid.
ssnMaskRegex(v) ==
    LET valid == validate(v)
    IN  IF valid.kind = "throw" THEN Throws
        ELSE IF ~valid.b THEN RetBool(FALSE)
        ELSE RetStr(MaskFragments(v.str))

\* swedishSSN.mask: no validation; a value that is no string has no .length to
\* slice by and divideByIndex throws (string.slice is not a function).
swedishSSNMask(v) ==
    IF v.type # "string" THEN Throws ELSE RetStr(MaskFragments(v.str))

-----------------------------------------------------------------------------
(* The three-phase validator and its masker                                *)
(* (ssnIsFormatValid, ssnIsDateValid, ssnIsChecksumValid, ssnMask).        *)

\* ExpressionTest with \d{9,10} for the ten digits.
ExpressionTestNineOrTen(s) ==
    /\ AllDigits(s)
    /\ \/ Len(s) \in {9, 10}
       \/ Len(s) = 12 /\ SubSeq(s, 1, 2) \in {<<"1", "9">>, <<"2", "0">>}

\* expression.test(s) for /^(19|20)?(\d{6}\d{4}|(?!19|20)\d{10})$/ : ten digits, or
\* 19 or 20 and ten digits.
ExpressionTest(s) ==
    /\ AllDigits(s)
    /\ \/ Len(s) = 10
       \/ Len(s) = 12 /\ SubSeq(s, 1, 2) \in {<<"1", "9">>, <<"2", "0">>}

\* !isNaN(Number(s)) for a string of word characters: the empty string is 0, a
\* string of digits is a number, anything else of this alphabet is NaN.
IsNumeric(s) == AllDigits(s)

ssnIsFormatValid(s) ==
    LET ssnToCheckWithoutNonWordChars == removeNonWordCharacters(s)
    IN  ExpressionTest(ssnToCheckWithoutNonWordChars) /\ IsNumeric(ssnToCheckWithoutNonWordChars)

\* The date string ssnIsDateValid parses: [ok, str], ok false where it returns
\* false before parsing.
DateString(s) ==
    LET dashed  == DashNonWordCharacters(s)
        dateArr == Split(dashed, "-")
    IN  IF Len(dateArr) # 2 /\ Includes(dashed, "-")
        THEN IF Len(dateArr) # 4 THEN [ok |-> FALSE, str |-> <<>>]
             ELSE [ok |-> TRUE, str |-> Join(SubSeq(dateArr, 1, 3), <<"-">>)]
        ELSE LET bare == removeNonWordCharacters(dashed)
             IN  IF Len(bare) - 4 = 6
                 THEN [ok |-> TRUE,
                       str |-> Substring(bare, 0, 2) \o <<"-">> \o Substring(bare, 2, 4)
                                   \o <<"-">> \o Substring(bare, 4, 6)]
                 ELSE IF Len(bare) - 4 = 8
                 THEN [ok |-> TRUE,
                       str |-> Substring(bare, 0, 4) \o <<"-">> \o Substring(bare, 4, 6)
                                   \o <<"-">> \o Substring(bare, 6, 8)]
                 ELSE [ok |-> FALSE, str |-> <<>>]

ssnIsDateValid(s) ==
    LET dateStr == DateString(s)
    IN  dateStr.ok /\ ~DateParse(dateStr.str).nan

RECURSIVE ChecksumSum(_, _)
\* The loop of ssnCalculateChecksum: the digit at an even index is doubled, and a
\* number above 9 is reduced by 9.
ChecksumSum(s, i) ==
    IF i >= Len(s) THEN 0
    ELSE LET digit   == DigitVal(s[i + 1])
             doubled == IF i % 2 = 0 THEN digit * 2 ELSE digit
             reduced == IF doubled > 9 THEN doubled - 9 ELSE doubled
         IN  reduced + ChecksumSum(s, i + 1)

\* The last steps without the test for zero: 10 minus the last digit of the sum.
LastDigitStepNoZero(sum) == 10 - (sum % 10)

\* The last steps of ssnCalculateChecksum: 0 for a sum ending in 0, else 10 minus
\* the last digit of the sum.
LastDigitStep(sum) == IF sum % 10 = 0 THEN 0 ELSE 10 - (sum % 10)

\* ssnCalculateChecksum on a string of digits and non-word characters:
\* [throws, str], the check digit as a string.
ssnCalculateChecksum(s) ==
    LET bare == removeNonWordCharacters(s)
    IN  IF Len(bare) = 9
        THEN [throws |-> FALSE, str |-> NumToStr(LastDigitStep(ChecksumSum(bare, 0)))]
        ELSE IF Len(bare) = 11
        THEN [throws |-> FALSE,
              str |-> NumToStr(LastDigitStep(ChecksumSum(Substring(bare, 2, 11), 0)))]
        ELSE [throws |-> TRUE, str |-> <<>>]

\* ssnIsChecksumValid: [throws, b]
ssnIsChecksumValid(s) ==
    LET extractedChecksum  == Substring(s, Len(s) - 1, Len(s))
        ssnWithoutChecksum == Substring(s, 0, Len(s) - 1)
        calculatedChecksum == ssnCalculateChecksum(ssnWithoutChecksum)
    IN  IF calculatedChecksum.throws THEN [throws |-> TRUE, b |-> FALSE]
        ELSE [throws |-> FALSE, b |-> calculatedChecksum.str = extractedChecksum]

\* ssnIsValid of the three-phase variant: the outcome of a call on a value v.  A
\* value that is no string has no replace method: removeNonWordCharacters throws.
ssnIsValid(v) ==
    IF v.type # "string" THEN Throws
    ELSE IF ~ssnIsFormatValid(v.str) THEN RetBool(FALSE)
    ELSE IF ~ssnIsDateValid(v.str) THEN RetBool(FALSE)
    ELSE LET sum == ssnIsChecksumValid(v.str)
         IN  IF sum.throws THEN Throws ELSE RetBool(sum.b)

\* The string ssnMask returns for a valid value of 12 or 10 word characters.
MaskBySubstr(value) ==
    LET n == Len(value)
    IN  MaskWordChars(Substr(value, 0, n - 6)) \o Substr(value, n - 6, 2)
            \o MaskWordChars(Substr(value, n - 2, n - 2)) \o Substr(value, n - 2, 1) \o <<"X">>

\* ssnMask of the three-phase variant: throws for a value that is not valid.
ssnMask(v) ==
    LET valid == ssnIsValid(v)
    IN  IF valid.kind = "throw" \/ ~valid.b THEN Throws
        ELSE LET value == removeNonWordCharacters(v.str)
             IN  IF Len(value) \in {10, 12} THEN RetStr(MaskBySubstr(value)) ELSE Throws

-----------------------------------------------------------------------------
(* The inputs of the model *)

\* The strings of the test table (test data of src/unnamed/part_001), of the
\* README files and of the comments of the maskers.
Fixtures ==
    { <<"9", "0", "0", "2", "1", "1", "-", "1", "2", "3", "4">>,  \* 900211-1234
      <<"6", "7", "0", "9", "1", "9", "-", "9", "5", "3", "0">>,  \* 670919-9530
      <<"6", "7", "0", "9", "1", "9", "-", "9", "5", "3", "4">>,  \* 670919-9534
      <<"6", "7", "0", "1", "9", "-", "9", "5", "3", "0">>,  \* 67019-9530
      <<"0", "0", "0", "9", "1", "9", "-", "9", "5", "3", "0">>,  \* 000919-9530
      <<"1", "9", "9", "0", "0", "2", "1", "1", "-", "1", "2", "3", "4">>,  \* 19900211-1234
      <<"2", "0", "4", "7", "0", "7", "0", "5", "-", "0", "5", "7", "3">>,  \* 20470705-0573
      <<"4", "3", "0", "4", "1", "6", "+", "1", "4", "7", "6">>,  \* 430416+1476
      <<>>,  \* the empty string
      <<"1", "2", "3", "4", "5", "6", "-", "1", "2", "3", "4">>,  \* 123456-1234
      <<"1", "2", "3", "4", "1", "2", "3", "1">>,  \* 12341231
      <<"1", "9", "9", "0", "-", "1", "1", "-", "2", "1", ":", "1", "2", "3", "4">>,  \* 1990-11-21:1234
      <<"1", "9", "9", "0", "1", "1", "2", "1", "1", "2", "3", "4">>,  \* 199011211234
      <<"9", "0", "1", "1", "2", "1", "1", "2", "3", "4">>,  \* 9011211234
      <<"9", "0", "-", "1", "1", "-", "2", "1", ":", "1", "2", "3", "4">>,  \* 90-11-21:1234
      <<"0", "1", "1", "-", "2", "3", "-", "4", "5", "6", "7">>,  \* 011-23-4567
      <<"0", "1", "1", "2", "3", "4", "5", "6", "7">>,  \* 011234567
      <<"1", "2", "3", "4", "5", "6", "7", "8", "9", "1", "2">>,  \* 12345678912
      <<"1", "2", "3", "4", "5", "6", "7", "8", "-", "1", "2", "3", "4">>   \* 12345678-1234
    }

\* Identifiers built from parts: a year of two or four digits, a month, a day, a
\* separator, a county of two digits, the gender digit and a last digit.
YearParts == {Str(<<9, 0>>), Str(<<4, 3>>), Str(<<1, 9, 9, 0>>), Str(<<1, 9, 0, 0>>),
              Str(<<2, 0, 2, 4>>), Str(<<2, 0, 4, 7>>)}
MonthParts == {Str(<<0, 0>>), Str(<<0, 2>>), Str(<<0, 4>>), Str(<<1, 3>>)}
DayParts == {Str(<<0, 0>>), Str(<<1, 1>>), Str(<<2, 9>>), Str(<<3, 0>>), Str(<<3, 1>>), Str(<<3, 2>>)}
Separators == {<<"-">>, <<"+">>, <<":">>}
CountyParts == {Str(<<0, 0>>), Str(<<1, 2>>), Str(<<2, 2>>)}
GenderParts == {Str(<<1>>), Str(<<3>>)}

BuiltIdentifiers ==
    { y \o m \o d \o sep \o c \o g \o <<k>> :
        y \in YearParts, m \in MonthParts, d \in DayParts, sep \in Separators,
        c \in CountyParts, g \in GenderParts, k \in Digits }

\* Strings one edit away from an identifier: a character removed, replaced or
\* inserted.
EditChars == {"0", "-", "+", ":"}
EditBases ==
    { <<"9", "0", "0", "2", "1", "1", "-", "1", "2", "3", "6">>,
      <<"1", "9", "9", "0", "0", "2", "1", "1", "-", "1", "2", "3", "6">>,
      <<"4", "3", "0", "4", "1", "6", "+", "1", "4", "7", "6">>,
      <<"9", "0", "-", "1", "1", "-", "2", "1", ":", "1", "2", "3", "4">>,
      <<"9", "0", "1", "1", "2", "1", "1", "2", "3", "4">> }
EditsOf(s) ==
    { SubSeq(s, 1, i - 1) \o SubSeq(s, i + 1, Len(s)) : i \in 1..Len(s) }
        \cup { SubSeq(s, 1, i - 1) \o <<c>> \o SubSeq(s, i + 1, Len(s)) : i \in 1..Len(s), c \in EditChars }
        \cup { SubSeq(s, 1, i) \o <<c>> \o SubSeq(s, i + 1, Len(s)) : i \in 0..Len(s), c \in EditChars }
EditedIdentifiers == UNION { EditsOf(s) : s \in EditBases }

\* Every string of at most MaxFreeLen characters over FreeChars.
MaxFreeLen == 4
FreeChars == {"0", "1", "-", "+"}
FreeStrings == UNION { [1..n -> FreeChars] : n \in 0..MaxFreeLen }

\* Strings of 9 and of 11 digits: the built identifiers without separator and
\* last digit.
DigitStrings ==
    { y \o m \o d \o c \o g :
        y \in YearParts, m \in MonthParts, d \in DayParts, c \in CountyParts, g \in GenderParts }

StringInputs ==
    Fixtures \cup BuiltIdentifiers \cup EditedIdentifiers \cup FreeStrings \cup DigitStrings

\* ToString of a non-negative integer: digits with no leading zero.
IsNumberString(s) == s # <<>> /\ AllDigits(s) /\ (s[1] # "0" \/ Len(s) = 1) /\ Len(s) <= 15

\* The values handed to the operations: strings; numbers (as the 12341231 of the
\* test table); arrays of one string, whose ToString is that string.
Inputs ==
    { [type |-> "string", str |-> s] : s \in StringInputs }
        \cup { [type |-> "number", str |-> s] : s \in { x \in Fixtures \cup FreeStrings : IsNumberString(x) } }
        \cup { [type |-> "array", str |-> s] : s \in Fixtures \cup EditBases }

\* The current date (the UTC date of the current instant): year, month, day.
Todays == {<<2024, 2, 29>>, <<2026, 11, 1>>, <<2110, 3, 1>>}

-----------------------------------------------------------------------------
(* The state machine: one call of one operation on one value *)

Init ==
    /\ input \in Inputs
    /\ today \in Todays
    /\ op = "none"
    /\ outcome = NoOutcome
    /\ executed = <<>>

\* SSN("SE").validate(input), ssnIsValid(input) of the regex variant.
Validate ==
    /\ op = "none"
    /\ op' = "validate"
    /\ outcome' = validate(input)
    /\ UNCHANGED <<input, today, executed>>

\* ssnMask(input) of the regex variant.
MaskRegex ==
    /\ op = "none"
    /\ op' = "ssnMaskRegex"
    /\ outcome' = ssnMaskRegex(input)
    /\ UNCHANGED <<input, today, executed>>

\* SSN("SE").mask(input).
MaskClass ==
    /\ op = "none"
    /\ op' = "swedishSSNMask"
    /\ outcome' = swedishSSNMask(input)
    /\ UNCHANGED <<input, today, executed>>

\* ssnIsValid(input) of the three-phase variant.
IsValid ==
    /\ op = "none"
    /\ op' = "ssnIsValid"
    /\ outcome' = ssnIsValid(input)
    /\ UNCHANGED <<input, today, executed>>

\* ssnMask(input) of the three-phase variant.
Mask ==
    /\ op = "none"
    /\ op' = "ssnMask"
    /\ outcome' = ssnMask(input)
    /\ UNCHANGED <<input, today, executed>>

\* sanitize(input), as ssnIsValid of the regex variant calls it: on a value that
\* passed the regular expression.  A value that is no string has no replace.
Sanitize ==
    /\ op = "none"
    /\ GeneralRegexTest(input.str)
    /\ op' = "sanitize"
    /\ outcome' = IF input.type = "string" THEN RetStr(sanitize(input.str)) ELSE Throws
    /\ UNCHANGED <<input, today, executed>>

\* ssnIsValid(ssnMask(input)) of the regex variant: the validator applied to the
\* string the masker returned.
ValidateMasked ==
    /\ op = "ssnMaskRegex"
    /\ outcome.kind = "str"
    /\ op' = "validateMasked"
    /\ outcome' = validate([type |-> "string", str |-> outcome.s])
    /\ UNCHANGED <<input, today, executed>>

\* ssnIsValid(ssnMask(input)) of the three-phase variant.
IsValidMasked ==
    /\ op = "ssnMask"
    /\ outcome.kind = "str"
    /\ op' = "ssnIsValidMasked"
    /\ outcome' = ssnIsValid([type |-> "string", str |-> outcome.s])
    /\ UNCHANGED <<input, today, executed>>

\* ssnCalculateChecksum(input): a value that is no string has no replace method.
CalculateChecksum ==
    /\ op = "none"
    /\ op' = "ssnCalculateChecksum"
    /\ outcome' = IF input.type # "string" THEN Throws
                  ELSE LET checksum == ssnCalculateChecksum(input.str)
                       IN  IF checksum.throws THEN Throws ELSE RetStr(checksum.str)
    /\ UNCHANGED <<input, today, executed>>

Next ==
    \/ CalculateChecksum
    \/ Validate
    \/ MaskRegex
    \/ MaskClass
    \/ IsValid
    \/ Mask
    \/ Sanitize
    \/ ValidateMasked
    \/ IsValidMasked

Spec == Init /\ [][Next]_vars

-----------------------------------------------------------------------------
(* The validators phase by phase: one call, one step per phase.  executed is *)
(* the sequence of the phases the call has run; the call has returned when    *)
(* outcome is set.                                                            *)

\* A phase of a validator that returns nothing although its check failed.
PhaseNeverReturns(passed) == NoOutcome

\* The && of ssnIsValid and the early returns of the regex variant: a phase whose
\* check failed returns false, a phase whose check passed lets the call go on.
PhaseResult(passed) == IF passed THEN NoOutcome ELSE RetBool(FALSE)

\* The call is at the phase that follows the phases done.
Running(name, done) == op = name /\ outcome = NoOutcome /\ executed = done

\* ssnIsFormatValid(value), the first operand of the && of ssnIsValid.
FormatPhase ==
    /\ op = "none"
    /\ op' = "ssnIsValidPhases"
    /\ executed' = <<"format">>
    /\ outcome' = IF input.type # "string" THEN Throws
                  ELSE PhaseResult(ssnIsFormatValid(input.str))
    /\ UNCHANGED <<input, today>>

\* ssnIsDateValid(value), the second operand.
DatePhase ==
    /\ Running("ssnIsValidPhases", <<"format">>)
    /\ executed' = Append(executed, "date")
    /\ outcome' = PhaseResult(ssnIsDateValid(input.str))
    /\ UNCHANGED <<input, today, op>>

\* ssnIsChecksumValid(value), the third operand: its result is the result of the
\* call.
ChecksumPhase ==
    /\ Running("ssnIsValidPhases", <<"format", "date">>)
    /\ executed' = Append(executed, "checksum")
    /\ outcome' = LET sum == ssnIsChecksumValid(input.str)
                  IN  IF sum.throws THEN Throws ELSE RetBool(sum.b)
    /\ UNCHANGED <<input, today, op>>

\* The regular expression test of ssnIsValid of the regex variant.
RegexPhase ==
    /\ op = "none"
    /\ op' = "validatePhases"
    /\ executed' = <<"format">>
    /\ outcome' = PhaseResult(GeneralRegexTest(input.str))
    /\ UNCHANGED <<input, today>>

\* ssn = sanitize(ssn).
SanitizePhase ==
    /\ Running("validatePhases", <<"format">>)
    /\ executed' = Append(executed, "normalization")
    /\ outcome' = IF input.type # "string" THEN Throws ELSE NoOutcome
    /\ UNCHANGED <<input, today, op>>

\* The date of the registry and the two conditions that return false.
RegistryDatePhase ==
    /\ Running("validatePhases", <<"format", "normalization">>)
    /\ executed' = Append(executed, "date")
    /\ outcome' = LET ssn   == sanitize(input.str)
                      parts == divideByIndex(ssn, <<Len(ssn) - 1>>)
                  IN  PhaseResult(~DateRejected(RegistryDate(parts[1])))
    /\ UNCHANGED <<input, today, op>>

\* The control loop and the comparison with the checksum.
ControlPhase ==
    /\ Running("validatePhases", <<"format", "normalization", "date">>)
    /\ executed' = Append(executed, "checksum")
    /\ outcome' = LET ssn   == sanitize(input.str)
                      parts == divideByIndex(ssn, <<Len(ssn) - 1>>)
                  IN  RetBool(ChecksumMatches(Control(parts[1]), DigitVal(parts[2][1])))
    /\ UNCHANGED <<input, today, op>>

NextPhases ==
    \/ FormatPhase
    \/ DatePhase
    \/ ChecksumPhase
    \/ RegexPhase
    \/ SanitizePhase
    \/ RegistryDatePhase
    \/ ControlPhase

SpecPhases == Init /\ [][NextPhases]_vars

-----------------------------------------------------------------------------
(* Notions the claims are stated in *)

IsString == input.type = "string"

\* The separators of an identifier: the non-word characters.
IsSeparator(c) == ~IsWordChar(c)

\* The string with its separators removed.
WithoutSeparators(s) == SelectSeq(s, LAMBDA c : ~IsSeparator(c))

\* The weighted digit sum of nine digits: weights 2,1,2,1,2,1,2,1,2 from the left,
\* a product of 10 or more reduced by 9.
RECURSIVE WeightedTotal(_, _)
WeightedTotal(nine, i) ==
    IF i > Len(nine) THEN 0
    ELSE LET product == DigitVal(nine[i]) * (IF i % 2 = 1 THEN 2 ELSE 1)
         IN  (IF product >= 10 THEN product - 9 ELSE product) + WeightedTotal(nine, i + 1)

\* check = (10 - (total mod 10)) mod 10
CheckDigitOf(nine) == (10 - (WeightedTotal(nine, 1) % 10)) % 10

\* An identifier of 10 or 12 digits and separators that ends in a digit.
HasCheckDigit(s) ==
    /\ s # <<>>
    /\ IsDigit(s[Len(s)])
    /\ AllDigits(WithoutSeparators(s))
    /\ Len(WithoutSeparators(s)) \in {10, 12}

\* The nine digits before the last digit (century digits excluded).
NineDigits(s) ==
    LET bare == WithoutSeparators(s)
    IN  SubSeq(bare, Len(bare) - 9, Len(bare) - 1)

TrailingDigit(s) == DigitVal(s[Len(s)])

\* The birth date of an identifier of the general format, after century
\* inference: <<year, month, day>>.
BirthDate(s) ==
    LET ssn == sanitize(s)
    IN  <<StrToNum(SubSeq(ssn, 1, 4)), StrToNum(SubSeq(ssn, 5, 6)), StrToNum(SubSeq(ssn, 7, 8))>>

\* A day that exists in the calendar.
IsRealDate(y, m, d) == m \in 1..12 /\ d >= 1 /\ d <= DaysInMonth(y, m)

\* One date later than another.
LaterThan(a, b) ==
    \/ a[1] > b[1]
    \/ a[1] = b[1] /\ a[2] > b[2]
    \/ a[1] = b[1] /\ a[2] = b[2] /\ a[3] > b[3]

\* The identifier passes the format check and the date check of the regex-based
\* validator.
PassesFormatAndDate(s) ==
    /\ GeneralRegexTest(s)
    /\ ~DateRejected(RegistryDate(Slice(sanitize(s), 0, 11)))

\* An identifier of the short form: six digits, the separator sep, four digits.
IsShortYear(s, sep) ==
    /\ Len(s) = 11
    /\ s[7] = sep
    /\ AllDigits(SubSeq(s, 1, 6))
    /\ AllDigits(SubSeq(s, 8, 11))

\* The first two digits of a year.
CenturyOf(year) == Slice(NumToStr(year), 0, 2)

\* The positions of s that hold a separator of the general format followed by
\* two digits, and the number those two digits form.
CountyPositions(s) ==
    { p \in 1..(Len(s) - 2) : s[p] \in {"-", "+"} /\ IsDigit(s[p + 1]) /\ IsDigit(s[p + 2]) }
CountyAt(s, p) == StrToNum(SubSeq(s, p + 1, p + 2))

Fixture670919 == <<"6", "7", "0", "9", "1", "9", "-", "9", "5", "3", "0">>
Short900211 == <<"9", "0", "0", "2", "1", "1", "-", "1", "2", "3", "4">>
Long19900211 == <<"1", "9", "9", "0", "0", "2", "1", "1", "-", "1", "2", "3", "4">>

-----------------------------------------------------------------------------
(* Claims *)

\* C1: the regex-based validator returns a boolean and never throws, for every
\* input, and returns false for the empty string and for every value that is no
\* string.  (Violated: a value that is no string and whose ToString passes the
\* regular expression, such as the array ["430416+1476"], makes sanitize throw.)
C1_ValidateNeverThrows ==
    op = "validate" =>
        /\ outcome.kind = "bool"
        /\ (~IsString \/ input.str = <<>>) => outcome.b = FALSE

\* C2: the maskers of the regex variant throw for every input on which the
\* validator returns false; they return neither false nor a masked string.
\* (Violated: ssnMask returns false and swedishSSN.mask returns a masked string.)
C2_MaskThrowsOnInvalid ==
    (op \in {"ssnMaskRegex", "swedishSSNMask"} /\ validate(input) = RetBool(FALSE)) =>
        outcome.kind = "throw"

C4_MaskExamples ==
    (op = "ssnMask" /\ IsString /\ LaterThan(today, <<1990, 2, 11>>)) =>
        /\ input.str = Short900211 =>
              outcome = RetStr(<<"X", "X", "X", "X", "1", "1", "X", "X", "3", "X">>)
        /\ input.str = Long19900211 =>
              outcome = RetStr(<<"X", "X", "X", "X", "X", "X", "1", "1", "X", "X", "3", "X">>)

\* C5: an identifier that passes the format check and the date check, whose
\* weighted total is a multiple of 10 and whose last digit is 0, is valid.
\* Stated for the identifiers whose date is a real date.
\* (Violated: the validator compares the last digit with 10 - 0 = 10.)
C5_ZeroCheckDigitAccepted ==
    (/\ op = "validate"
     /\ IsString
     /\ PassesFormatAndDate(input.str)
     /\ IsRealDate(BirthDate(input.str)[1], BirthDate(input.str)[2], BirthDate(input.str)[3])
     /\ WeightedTotal(NineDigits(input.str), 1) % 10 = 0
     /\ TrailingDigit(input.str) = 0) =>
        outcome = RetBool(TRUE)

C8_FutureDateRejected ==
    (/\ op = "validate"
     /\ IsString
     /\ GeneralRegexTest(input.str)
     /\ LaterThan(BirthDate(input.str), today)) =>
        outcome = RetBool(FALSE)

C8_Witness ==
    /\ op = "validate"
    /\ IsString
    /\ GeneralRegexTest(input.str)
    /\ IsRealDate(BirthDate(input.str)[1], BirthDate(input.str)[2], BirthDate(input.str)[3])
    /\ LaterThan(BirthDate(input.str), today)
    /\ TrailingDigit(input.str) = CheckDigitOf(NineDigits(input.str))
    /\ TrailingDigit(input.str) # 0
    /\ outcome = RetBool(FALSE)

\* C9: an identifier whose date is no real calendar date (a month outside 01..12,
\* a day 00, a day its month does not have) is rejected, also when its check
\* digit is correct.  (Violated: new Date("1990-02-30") is 2 March 1990.)
C9_UnrealDateRejected ==
    (/\ op = "validate"
     /\ IsString
     /\ GeneralRegexTest(input.str)
     /\ ~IsRealDate(BirthDate(input.str)[1], BirthDate(input.str)[2], BirthDate(input.str)[3])) =>
        outcome = RetBool(FALSE)

\* C10: a string that does not consist of exactly 10 or exactly 12 digits once
\* its separators are removed is rejected by both validators.
C10_DigitCount ==
    (/\ op \in {"validate", "ssnIsValid"}
     /\ IsString
     /\ ~(AllDigits(WithoutSeparators(input.str)) /\ Len(WithoutSeparators(input.str)) \in {10, 12})) =>
        outcome = RetBool(FALSE)

C10_Witness ==
    /\ op = "ssnIsValid"
    /\ IsString
    /\ AllDigits(WithoutSeparators(input.str))
    /\ Len(WithoutSeparators(input.str)) = 11
    /\ Len(input.str) = 12
    /\ outcome = RetBool(FALSE)

\* C11, as claimed: for a short-year identifier with the separator '+', sanitize
\* returns the first two digits of (currentYear - 100) followed by the ten digits
\* of the identifier.
C11_PlusCenturyHundred ==
    (op = "sanitize" /\ IsString /\ IsShortYear(input.str, "+")) =>
        outcome = RetStr(CenturyOf(CurrentYear - 100) \o WithoutSeparators(input.str))

\* C11, amended: for a short-year identifier with the separator '+', sanitize
\* returns the first two digits of (currentYear - 125) followed by the ten digits
\* of the identifier: twelve digits, the separator removed.
C11_PlusCenturyLifespan ==
    (op = "sanitize" /\ IsString /\ IsShortYear(input.str, "+")) =>
        /\ outcome = RetStr(CenturyOf(CurrentYear - 125) \o WithoutSeparators(input.str))
        /\ Len(outcome.s) = 12
        /\ AllDigits(outcome.s)

C11_Witness ==
    /\ op = "sanitize"
    /\ IsString
    /\ IsShortYear(input.str, "+")
    /\ CenturyOf(CurrentYear - 125) # CenturyOf(CurrentYear - 100)
    /\ outcome.kind = "str"
    /\ Len(outcome.s) = 12

C13_MaskedIsInvalid ==
    /\ (op = "validateMasked" /\ validate(input) = RetBool(TRUE)) => outcome = RetBool(FALSE)
    /\ (op = "ssnIsValidMasked" /\ ssnIsValid(input) = RetBool(TRUE)) => outcome = RetBool(FALSE)

C13_Witness ==
    /\ op = "validateMasked"
    /\ IsString
    /\ validate(input) = RetBool(TRUE)
    /\ validate([type |-> "string", str |-> MaskFragments(input.str)]) = outcome
    /\ outcome = RetBool(FALSE)

\* C14: for a short-year identifier the validator accepts, the birth year Y that
\* century inference reconstructs agrees with the separator: currentYear - Y < 100
\* with '-', currentYear - Y >= 100 with '+'.
\* (Violated: "430416+1476" is accepted in 2026 as born in 1943, aged 83.)
C14_AgeAgreesWithSeparator ==
    (op = "validate" /\ IsString /\ outcome = RetBool(TRUE)) =>
        /\ IsShortYear(input.str, "-") => CurrentYear - BirthDate(input.str)[1] < 100
        /\ IsShortYear(input.str, "+") => CurrentYear - BirthDate(input.str)[1] >= 100

\* The phases of the two validators, in the order of the code.
ThreePhases == <<"format", "date", "checksum">>
RegexPhases == <<"format", "normalization", "date", "checksum">>
IsPrefix(s, all) == Len(s) <= Len(all) /\ s = SubSeq(all, 1, Len(s))
Ran(phase) == \E i \in 1..Len(executed) : executed[i] = phase

DigitsForChecksum(s) == removeNonWordCharacters(Substring(s, 0, Len(s) - 1))

\* C16: on every string of digits and separators the three-phase ssnIsValid
\* returns a boolean and does not throw: when the format check and the date check
\* accept, ssnCalculateChecksum gets 9 or 11 digits.
\* (Violated: "9011211234-" passes both checks, its last character is the
\* separator, and ssnCalculateChecksum gets 10 digits and throws.)
C16_IsValidNeverThrows ==
    (op = "ssnIsValid" /\ IsString) =>
        /\ outcome.kind = "bool"
        /\ (ssnIsFormatValid(input.str) /\ ssnIsDateValid(input.str)) =>
              Len(DigitsForChecksum(input.str)) \in {9, 11}

\* C17: on a string of 9 digits ssnCalculateChecksum returns the one digit
\* (10 - (total mod 10)) mod 10, total being the sum of the digits doubled at the
\* even 0-based positions, a product above 9 reduced by 9; on a string of 11
\* digits it returns what it returns on the last 9 of them; on a string of any
\* other number of digits it throws.
C17_ChecksumOfNine ==
    (op = "ssnCalculateChecksum" /\ IsString /\ AllDigits(input.str)) =>
        /\ Len(input.str) = 9 =>
              outcome = RetStr(<<Dg(CheckDigitOf(input.str))>>)
        /\ Len(input.str) = 11 =>
              /\ outcome = RetStr(<<Dg(CheckDigitOf(SubSeq(input.str, 3, 11)))>>)
              /\ outcome = RetStr(ssnCalculateChecksum(SubSeq(input.str, 3, 11)).str)
        /\ Len(input.str) \notin {9, 11} => outcome = Throws

C17_Witness ==
    /\ op = "ssnCalculateChecksum"
    /\ IsString
    /\ AllDigits(input.str)
    /\ Len(input.str) = 11
    /\ WeightedTotal(SubSeq(input.str, 3, 11), 1) % 10 = 0
    /\ outcome = RetStr(<<"0">>)

====
